---- MODULE Spec2Model ----
(***************************************************************************)
(* The collect -> resolve -> download pipeline of PixivCrawler.            *)
(*                                                                         *)
(* Collector (collector/collector.py) is modelled from its source.  The    *)
(* collector unit `collect`, the selectors, the Fetcher's retry loop and   *)
(* the Downloader are imported by collector.py but live in other files of  *)
(* the package; they are modelled from the specification (sections 4.1,    *)
(* 4.2, 4.5 and 7).                                                        *)
(*                                                                         *)
(* Spec      one driver run after another on one store: add, collect(),    *)
(*           download(); a fetch with its retries is one step of a task.   *)
(* SpecFetch the Fetcher alone, attempt by attempt, for several tasks at   *)
(*           once.                                                         *)
(* SpecPace  the Downloader's workers against the clock.                   *)
(* SpecRaise one metadata pass whose tasks may raise.                      *)
(***************************************************************************)
EXTENDS Integers, Sequences, FiniteSets, TLC

(* ------------------------------ bounds --------------------------------- *)
NumIds == 2
NumUrls == 2
MaxLen == 2
MaxAdds == 2
MaxRuns == 2
MaxThreads == 2
NumDownloads == 3
MaxTime == 5

(* ------------------------- program constants --------------------------- *)
\* abort request/download after 5(default) unsuccessful attempts
FAIL_TIMES == 5
\* wait seconds between each download
DOWNLOAD_DELAY == 2

(* ------------------------------ universes ------------------------------ *)
\* illust ids ("100", "101", ...) and resource URLs (opaque)
Ids == 100 .. (100 + NumIds - 1)
Urls == 1 .. NumUrls
Keys == Ids \cup Urls
\* file_name arguments of _collect_and_save_data
TagsFile == "tags.json"
BookmarkFile == "bookmark_data.json"
Kinds == {TagsFile, BookmarkFile}
PagesPhase == "pages"
AssetsPhase == "assets"
\* os.path.exists(file_path) is False
NoFile == <<>>
\* every iterable a driver can hand to Collector.add
IdSeqs == UNION {[1 .. n -> Ids] : n \in 0 .. MaxLen}

VARIABLES
    pc,                 \* position of the driver thread
    run,                \* number of the current pipeline run
    adds,               \* Collector.add calls made in this run
    with_tag,           \* download_config.with_tag
    bookmark,           \* download_config.bookmark
    url_only,           \* download_config.url_only
    num_threads,        \* download_config.num_threads
    id_group,           \* Collector.id_group
    url_group,          \* Downloader.url_group
    meta,               \* <store_path>/<id>/<file_name>: content or NoFile
    assets,             \* URLs whose asset file exists under store_path
    task,               \* the tasks of the pool that is open
    filtered_id_group,  \* what the zip loop of the metadata pass has left
    url_futures,        \* futures as_completed has not yielded yet
    data,               \* the dict the metadata pass builds and returns
    returned,           \* what the driver's run() has returned
    now,                \* SpecPace: the clock, in seconds
    queue,              \* SpecPace: the downloads no worker has taken yet
    workers,            \* SpecPace: what each Downloader worker is doing
    fetch,              \* SpecFetch: the fetches in progress
    log,                \* SpecFetch history: the replies each fetch has had
    supplied,           \* history: every identifier handed to add
    snap,               \* history: the files of a pass as it began
    net,                \* history: network calls issued in this pass
    wrote,              \* history: files written in this pass
    writes,             \* history: who wrote what in this run, in order
    resolved,           \* history: how the URL resolution of each id ended
    prev                \* history: what the run before left behind

vars == <<pc, run, adds, with_tag, bookmark, url_only, num_threads, id_group,
          url_group, meta, assets, task, filtered_id_group, url_futures,
          data, returned, now, queue, workers, fetch, log, supplied, snap,
          net, wrote, writes, resolved, prev>>

config == <<with_tag, bookmark, url_only, num_threads>>

store == <<meta, assets>>

collectorState == <<id_group, supplied, adds>>

history == <<snap, net, wrote, resolved, prev>>

fetcher == <<fetch, log>>

pacing == <<now, queue, workers>>

(* --------------------------- helper operators -------------------------- *)
Range(s) == {s[i] : i \in DOMAIN s}

\* the orders in which a set can be iterated
Perms(S) == {s \in [1 .. Cardinality(S) -> S] : Range(s) = S}

Idle == [st |-> "idle", out |-> "none", v |-> {}]

NoTasks == [k \in Keys |-> Idle]

Unresolved == [i \in Ids |-> [out |-> "none", v |-> {}]]

NoFiles == [i \in Ids |-> NoFile]

NoSnap == [files |-> NoFiles, assets |-> {}]

Running == {k \in Keys : task[k].st = "running"}

\* url_group holds, for each URL, how often the working set contains it
NoUrls == [u \in Urls |-> 0]

\* the workers of the Downloader's pool, none of them at work
NoWorkers == [w \in 1 .. MaxThreads |-> [st |-> "idle", on |-> 0, starts |-> <<>>]]

\* the thread that runs collect() and download()
Main == [thread |-> "main", of |-> 0]

\* the pool thread that runs the task of key k
Worker(k) == [thread |-> "worker", of |-> k]

\* nothing written yet: per metadata path, per asset path and for the
\* Downloader's working set, the units that wrote it
NoWrites == [files |-> [k \in Kinds |-> [i \in Ids |-> <<>>]],
             assets |-> [u \in Urls |-> <<>>],
             url_group |-> <<>>]

\* unit writes the data file of illust_id
WriteFile(log_, file_name, illust_id, unit) ==
    [log_ EXCEPT !.files[file_name][illust_id] = Append(@, unit)]

\* unit writes the asset file of u
WriteAsset(log_, u, unit) == [log_ EXCEPT !.assets[u] = Append(@, unit)]

\* unit calls Downloader.add
AddCall(log_, unit) == [log_ EXCEPT !.url_group = Append(@, unit)]

\* run() has not returned
NoResult == [kind |-> "none", v |-> NoUrls]

Held(group) == {u \in Urls : group[u] > 0}

RECURSIVE Total(_, _)
Total(group, S) ==
    IF S = {} THEN 0
    ELSE LET u == CHOOSE x \in S : TRUE IN group[u] + Total(group, S \ {u})

\* len(url_group)
Size(group) == Total(group, Urls)

Submitted == {k \in Keys : task[k].st # "idle"}

Submit(S) == [k \in Keys |-> IF k \in S THEN [Idle EXCEPT !.st = "queued"] ELSE Idle]

(* ------------------------------ Fetcher -------------------------------- *)
AttemptResults == {"ok", "transient", "nonretryable"}

\* a slip: one attempt too many before the fetch gives up
FetchStepOneMore(f, o) ==
    LET n == f.tries + 1 IN
    CASE o = "ok" ->
           [st |-> "done", tries |-> n, out |-> "ok"]
      [] o = "transient" /\ n <= FAIL_TIMES ->
           [st |-> "running", tries |-> n, out |-> "none"]
      [] o = "transient" /\ n > FAIL_TIMES ->
           [st |-> "done", tries |-> n, out |-> "exhausted"]
      [] OTHER ->
           [st |-> "done", tries |-> n, out |-> "nonretryable"]

\* One network attempt of fetch f ends in o:
\*   "ok"            Success(bytes)
\*   "transient"     RetryableFailure: counts against FAIL_TIMES
\*   "nonretryable"  FatalFailure at once
FetchStep(f, o) ==
    LET n == f.tries + 1 IN
    CASE o = "ok" ->
           [st |-> "done", tries |-> n, out |-> "ok"]
      [] o = "transient" /\ n < FAIL_TIMES ->
           [st |-> "running", tries |-> n, out |-> "none"]
      [] o = "transient" /\ n >= FAIL_TIMES ->
           [st |-> "done", tries |-> n, out |-> "exhausted"]
      [] OTHER ->
           [st |-> "done", tries |-> n, out |-> "nonretryable"]

NewFetch == [st |-> "running", tries |-> 0, out |-> "none"]

\* fetch(url, headers, timeout) against a server that answers the
\* successive attempts with replies[1], replies[2], ...
RECURSIVE FetchRun(_, _)
FetchRun(f, replies) ==
    IF f.st = "done" \/ replies = <<>> THEN f
    ELSE FetchRun(FetchStep(f, Head(replies)), Tail(replies))

\* the FetchOutcomes a fetch can return (Success, or FatalFailure with its
\* reason), over every way a server can answer
FetchOutcomes ==
    {FetchRun(NewFetch, replies).out : replies \in [1 .. FAIL_TIMES -> AttemptResults]}

(* -------------------------------- Init --------------------------------- *)
Init ==
    /\ pc = "add"
    /\ run = 1
    /\ adds = 0
    /\ with_tag \in BOOLEAN
    /\ bookmark \in BOOLEAN
    /\ url_only \in BOOLEAN
    /\ num_threads \in 1 .. MaxThreads
    /\ id_group = {}
    /\ url_group = NoUrls
    /\ meta = [k \in Kinds |-> NoFiles]
    /\ assets = {}
    /\ task = NoTasks
    /\ filtered_id_group = <<>>
    /\ url_futures = {}
    /\ data = <<>>
    /\ returned = NoResult
    /\ now = 0
    /\ queue = {}
    /\ workers = NoWorkers
    /\ fetch = <<>>
    /\ log = <<>>
    /\ supplied = {}
    /\ snap = NoSnap
    /\ net = {}
    /\ wrote = {}
    /\ writes = NoWrites
    /\ resolved = Unresolved
    /\ prev = [failed |-> {}, files |-> {}, assets |-> {}]

(* ---------------------------- Collector.add ---------------------------- *)
\* for image_id in image_ids: self.id_group.add(image_id)
\* a slip: the set is assigned, not united
AddAllAssign(group, image_ids) == Range(image_ids)

RECURSIVE AddAll(_, _)
AddAll(group, image_ids) ==
    IF image_ids = <<>> THEN group
    ELSE AddAll(group \cup {Head(image_ids)}, Tail(image_ids))

add(image_ids) ==
    /\ pc = "add"
    /\ adds < MaxAdds
    /\ id_group' = AddAll(id_group, image_ids)
    /\ supplied' = supplied \cup Range(image_ids)
    /\ adds' = adds + 1
    /\ UNCHANGED <<pc, run, config, returned, url_group, store, task,
                   filtered_id_group, url_futures, data, fetcher, pacing,
                   writes, history>>

(* -------------------------- Collector.collect -------------------------- *)
collect ==
    /\ pc = "add"
    /\ pc' = "l36"
    /\ adds' = 0
    /\ UNCHANGED <<run, config, returned, id_group, supplied, url_group,
                   store, task, filtered_id_group, url_futures, data, fetcher,
                   pacing, writes, history>>

\* if download_config.with_tag / if download_config.bookmark: not set
SkipData(at, flag, next) ==
    /\ pc = at
    /\ ~flag
    /\ pc' = next
    /\ UNCHANGED <<run, config, returned, collectorState, url_group, store,
                   task, filtered_id_group, url_futures, data, fetcher,
                   pacing, writes, history>>

\* a slip: the filter loop keeps every id
FilteredNone(file_name) == id_group

\* the ids the filter loop keeps: those without a data file
Filtered(file_name) == {i \in id_group : meta[file_name][i] = NoFile}

\* _collect_and_save_data up to the submission of the tasks
BeginData(at, flag, file_name) ==
    /\ pc = at
    /\ flag
    /\ \E order \in Perms(Filtered(file_name)) :
         /\ filtered_id_group' = order
         /\ task' = Submit(Range(order))
    /\ data' = <<>>
    /\ snap' = [NoSnap EXCEPT !.files = meta[file_name]]
    /\ net' = {}
    /\ wrote' = {}
    /\ pc' = file_name
    /\ UNCHANGED <<run, config, returned, collectorState, url_group, store,
                   url_futures, fetcher, pacing, writes, resolved, prev>>

\* ThreadPoolExecutor(num_threads): a free worker takes the next queued task.
\* The work queue is first in, first out: in a metadata pass the tasks start
\* in the order of filtered_id_group; the order of url_futures is the
\* iteration order of a set, so any queued task may be the next one.
NextInQueue(k) ==
    IF pc \in Kinds
    THEN \E n \in DOMAIN filtered_id_group :
           /\ filtered_id_group[n] = k
           /\ \A m \in 1 .. n - 1 : task[filtered_id_group[m]].st # "queued"
    ELSE TRUE

\* a slip: one thread per task, whatever num_threads says
StartTaskUnbounded(k) ==
    /\ pc \in Kinds \cup {PagesPhase}
    /\ task[k].st = "queued"
    /\ NextInQueue(k)
    /\ task' = [task EXCEPT ![k].st = "running"]
    /\ net' = net \cup {k}
    /\ UNCHANGED <<pc, run, config, returned, collectorState, url_group,
                   store, filtered_id_group, url_futures, data, fetcher,
                   pacing, writes, snap, wrote, resolved, prev>>

\* the worker enters the collector unit and issues its request
StartTask(k) ==
    /\ pc \in Kinds \cup {PagesPhase}
    /\ task[k].st = "queued"
    /\ Cardinality(Running) < num_threads
    /\ NextInQueue(k)
    /\ task' = [task EXCEPT ![k].st = "running"]
    /\ net' = net \cup {k}
    /\ UNCHANGED <<pc, run, config, returned, collectorState, url_group,
                   store, filtered_id_group, url_futures, data, fetcher,
                   pacing, writes, snap, wrote, resolved, prev>>

\* what the server holds for artwork k in this run: its tags or its
\* bookmark data
Served(file_name, k) == <<file_name, k, run>>

\* what a selector makes of the bytes of a Success: data, None for an
\* artwork with nothing to select, or a malformed payload
Selected(phase, k) ==
    IF phase = PagesPhase
    THEN {[out |-> "data", v |-> U] : U \in (SUBSET Urls) \ {{}}}
         \cup {[out |-> "empty", v |-> {}], [out |-> "malformed", v |-> {}]}
    ELSE {[out |-> "data", v |-> Served(phase, k)],
          [out |-> "empty", v |-> {}], [out |-> "malformed", v |-> {}]}

\* collect(url, selector, additional_headers): the unit hands back the
\* selected data; a FatalFailure of the fetch or a malformed payload is
\* reported and None is handed back, as for an empty selection
Unit(o, sel) ==
    IF o = "ok" /\ sel.out # "malformed"
    THEN [st |-> "done", out |-> sel.out, v |-> sel.v]
    ELSE [st |-> "done", out |-> "failed", v |-> {}]

UnitResults(phase, k) == {Unit(o, sel) : o \in FetchOutcomes, sel \in Selected(phase, k)}

\* a slip: the test of the return value is inverted
IsNoneInverted(t) == t.out = "data"

\* the unit's return value is None
IsNone(t) == t.out # "data"

\* the fetch of a collector unit, retries included, comes to its end
FinishTask(k, result) ==
    /\ pc \in Kinds \cup {PagesPhase}
    /\ task[k].st = "running"
    /\ task' = [task EXCEPT ![k] = result]
    /\ resolved' = IF pc = PagesPhase
                   THEN [resolved EXCEPT ![k] = [out |-> result.out, v |-> result.v]]
                   ELSE resolved
    /\ UNCHANGED <<pc, run, config, returned, collectorState, url_group,
                   store, filtered_id_group, url_futures, data, fetcher,
                   pacing, writes, snap, net, wrote, prev>>

\* json.dumps({illust_id: collected_data}, indent=4, ensure_ascii=False)
Dumps(illust_id, collected_data) == <<illust_id, collected_data>>

\* a slip: the result is written without the test for None
ConsumeDataUnchecked(file_name) ==
    /\ pc = file_name
    /\ filtered_id_group # <<>>
    /\ LET illust_id == Head(filtered_id_group)
           t == task[illust_id]
       IN /\ t.st = "done"
          /\ task' = [task EXCEPT ![illust_id].st = "consumed"]
          /\ data' = (illust_id :> t.v) @@ data
          /\ meta' = [meta EXCEPT ![file_name][illust_id] = Dumps(illust_id, t.v)]
          /\ wrote' = wrote \cup {illust_id}
          /\ writes' = WriteFile(writes, file_name, illust_id, Main)
    /\ filtered_id_group' = Tail(filtered_id_group)
    /\ UNCHANGED <<pc, run, config, returned, collectorState, url_group,
                   assets, url_futures, fetcher, pacing, snap, net,
                   resolved, prev>>

\* a slip: the ids are paired with the results in the order of completion
ConsumeDataAsCompleted(file_name) ==
    /\ pc = file_name
    /\ filtered_id_group # <<>>
    /\ \E k \in Ids :
         LET illust_id == Head(filtered_id_group)
             t == task[k]
         IN /\ t.st = "done"
            /\ task' = [task EXCEPT ![k].st = "consumed"]
            /\ IF ~IsNone(t)
               THEN /\ data' = (illust_id :> t.v) @@ data
                    /\ meta' = [meta EXCEPT ![file_name][illust_id] =
                                                 Dumps(illust_id, t.v)]
                    /\ wrote' = wrote \cup {illust_id}
                    /\ writes' = WriteFile(writes, file_name, illust_id, Main)
               ELSE UNCHANGED <<data, meta, wrote, writes>>
    /\ filtered_id_group' = Tail(filtered_id_group)
    /\ UNCHANGED <<pc, run, config, returned, collectorState, url_group,
                   assets, url_futures, fetcher, pacing, snap, net,
                   resolved, prev>>

\* a slip: a None result ends the zip loop
ConsumeDataStop(file_name) ==
    /\ pc = file_name
    /\ filtered_id_group # <<>>
    /\ LET illust_id == Head(filtered_id_group)
           t == task[illust_id]
       IN /\ t.st = "done"
          /\ task' = [task EXCEPT ![illust_id].st = "consumed"]
          /\ IF ~IsNone(t)
             THEN /\ data' = (illust_id :> t.v) @@ data
                  /\ meta' = [meta EXCEPT ![file_name][illust_id] = Dumps(illust_id, t.v)]
                  /\ wrote' = wrote \cup {illust_id}
                  /\ writes' = WriteFile(writes, file_name, illust_id, Main)
             ELSE UNCHANGED <<data, meta, wrote, writes>>
    /\ filtered_id_group' = IF IsNone(task[Head(filtered_id_group)])
                            THEN <<>>
                            ELSE Tail(filtered_id_group)
    /\ UNCHANGED <<pc, run, config, returned, collectorState, url_group,
                   assets, url_futures, fetcher, pacing, snap, net,
                   resolved, prev>>

\* a slip: the file is written a second time
ConsumeDataTwice(file_name) ==
    /\ pc = file_name
    /\ filtered_id_group # <<>>
    /\ LET illust_id == Head(filtered_id_group)
           t == task[illust_id]
       IN /\ t.st = "done"
          /\ task' = [task EXCEPT ![illust_id].st = "consumed"]
          /\ IF ~IsNone(t)
             THEN /\ data' = (illust_id :> t.v) @@ data
                  /\ meta' = [meta EXCEPT ![file_name][illust_id] = Dumps(illust_id, t.v)]
                  /\ wrote' = wrote \cup {illust_id}
                  /\ writes' = WriteFile(WriteFile(writes, file_name, illust_id, Main),
                                       file_name, illust_id, Main)
             ELSE UNCHANGED <<data, meta, wrote, writes>>
    /\ filtered_id_group' = Tail(filtered_id_group)
    /\ UNCHANGED <<pc, run, config, returned, collectorState, url_group,
                   assets, url_futures, fetcher, pacing, snap, net,
                   resolved, prev>>

\* a slip: the file is written by the pool thread that ran the task
ConsumeDataInWorker(file_name) ==
    /\ pc = file_name
    /\ filtered_id_group # <<>>
    /\ LET illust_id == Head(filtered_id_group)
           t == task[illust_id]
       IN /\ t.st = "done"
          /\ task' = [task EXCEPT ![illust_id].st = "consumed"]
          /\ IF ~IsNone(t)
             THEN /\ data' = (illust_id :> t.v) @@ data
                  /\ meta' = [meta EXCEPT ![file_name][illust_id] = Dumps(illust_id, t.v)]
                  /\ wrote' = wrote \cup {illust_id}
                  /\ writes' = WriteFile(writes, file_name, illust_id, Worker(illust_id))
             ELSE UNCHANGED <<data, meta, wrote, writes>>
    /\ filtered_id_group' = Tail(filtered_id_group)
    /\ UNCHANGED <<pc, run, config, returned, collectorState, url_group,
                   assets, url_futures, fetcher, pacing, snap, net,
                   resolved, prev>>

\* one round of the zip loop: executor.map yields results in the order of
\* submission, so the loop waits for the task of the first id left
ConsumeData(file_name) ==
    /\ pc = file_name
    /\ filtered_id_group # <<>>
    /\ LET illust_id == Head(filtered_id_group)
           t == task[illust_id]
       IN /\ t.st = "done"
          /\ task' = [task EXCEPT ![illust_id].st = "consumed"]
          /\ IF ~IsNone(t)
             THEN /\ data' = (illust_id :> t.v) @@ data
                  /\ meta' = [meta EXCEPT ![file_name][illust_id] = Dumps(illust_id, t.v)]
                  /\ wrote' = wrote \cup {illust_id}
                  /\ writes' = WriteFile(writes, file_name, illust_id, Main)
             ELSE UNCHANGED <<data, meta, wrote, writes>>
    /\ filtered_id_group' = Tail(filtered_id_group)
    /\ UNCHANGED <<pc, run, config, returned, collectorState, url_group,
                   assets, url_futures, fetcher, pacing, snap, net,
                   resolved, prev>>

\* a slip: the pass returns without waiting for its pool
EndDataEarly(file_name, next) ==
    /\ pc = file_name
    /\ pc' = next
    /\ UNCHANGED <<run, config, returned, collectorState, url_group, store,
                   task, filtered_id_group, url_futures, data, fetcher,
                   pacing, history, writes>>

\* the zip loop is over; leaving the with block shuts the pool down and
\* the pass returns data
EndData(file_name, next) ==
    /\ pc = file_name
    /\ filtered_id_group = <<>>
    /\ \A k \in Keys : task[k].st \notin {"queued", "running"}
    /\ task' = NoTasks
    /\ data' = <<>>
    /\ snap' = NoSnap
    /\ net' = {}
    /\ wrote' = {}
    /\ pc' = next
    /\ UNCHANGED <<run, config, returned, collectorState, url_group, store,
                   filtered_id_group, url_futures, fetcher, pacing, writes,
                   resolved, prev>>

\* lines 44-60: one collect task per id of id_group
BeginUrls ==
    /\ pc = "l44"
    /\ task' = Submit(id_group)
    /\ url_futures' = id_group
    /\ net' = {}
    /\ pc' = PagesPhase
    /\ UNCHANGED <<run, config, returned, collectorState, url_group, store,
                   filtered_id_group, data, fetcher, pacing, writes, snap,
                   wrote, resolved, prev>>

\* a slip: every URL handed in is appended, held or not
DownloaderAddAppend(group, urls) ==
    [u \in Urls |-> IF u \in urls THEN group[u] + 1 ELSE group[u]]

\* Downloader.add(urls): union into the working set
DownloaderAdd(group, urls) ==
    [u \in Urls |-> IF u \in urls /\ group[u] = 0 THEN 1 ELSE group[u]]

\* a slip: a None result ends the as_completed loop
ConsumeUrlsStop(illust_id) ==
    /\ pc = PagesPhase
    /\ illust_id \in url_futures
    /\ task[illust_id].st = "done"
    /\ task' = [task EXCEPT ![illust_id].st = "consumed"]
    /\ url_group' = IF ~IsNone(task[illust_id])
                    THEN DownloaderAdd(url_group, task[illust_id].v)
                    ELSE url_group
    /\ writes' = IF ~IsNone(task[illust_id]) THEN AddCall(writes, Main) ELSE writes
    /\ url_futures' = IF ~IsNone(task[illust_id])
                      THEN url_futures \ {illust_id}
                      ELSE {}
    /\ UNCHANGED <<pc, run, config, returned, collectorState, store,
                   filtered_id_group, data, fetcher, pacing, history>>

\* a slip: Downloader.add starts the download of what it is handed
ConsumeUrlsDownloads(illust_id) ==
    /\ pc = PagesPhase
    /\ illust_id \in url_futures
    /\ task[illust_id].st = "done"
    /\ task' = [k \in Keys |->
                   IF k = illust_id THEN [task[k] EXCEPT !.st = "consumed"]
                   ELSE IF ~IsNone(task[illust_id]) /\ k \in task[illust_id].v
                        THEN [Idle EXCEPT !.st = "running"]
                        ELSE task[k]]
    /\ url_group' = IF ~IsNone(task[illust_id])
                    THEN DownloaderAdd(url_group, task[illust_id].v)
                    ELSE url_group
    /\ writes' = IF ~IsNone(task[illust_id]) THEN AddCall(writes, Main) ELSE writes
    /\ url_futures' = url_futures \ {illust_id}
    /\ UNCHANGED <<pc, run, config, returned, collectorState, store,
                   filtered_id_group, data, fetcher, pacing, history>>

\* one round of the as_completed loop: any finished future comes next
ConsumeUrls(illust_id) ==
    /\ pc = PagesPhase
    /\ illust_id \in url_futures
    /\ task[illust_id].st = "done"
    /\ task' = [task EXCEPT ![illust_id].st = "consumed"]
    /\ url_group' = IF ~IsNone(task[illust_id])
                    THEN DownloaderAdd(url_group, task[illust_id].v)
                    ELSE url_group
    /\ writes' = IF ~IsNone(task[illust_id]) THEN AddCall(writes, Main) ELSE writes
    /\ url_futures' = url_futures \ {illust_id}
    /\ UNCHANGED <<pc, run, config, returned, collectorState, store,
                   filtered_id_group, data, fetcher, pacing, history>>

\* a slip: collect() returns as soon as the pool has no work left
EndUrlsEarly ==
    /\ pc = PagesPhase
    /\ \A k \in Keys : task[k].st \notin {"queued", "running"}
    /\ task' = NoTasks
    /\ url_futures' = {}
    /\ net' = {}
    /\ pc' = "collected"
    /\ UNCHANGED <<run, config, returned, collectorState, url_group, store,
                   filtered_id_group, data, fetcher, pacing, writes, snap,
                   wrote, resolved, prev>>

\* as_completed is exhausted; the pool shuts down and collect() returns
EndUrls ==
    /\ pc = PagesPhase
    /\ url_futures = {}
    /\ \A k \in Keys : task[k].st \notin {"queued", "running"}
    /\ task' = NoTasks
    /\ net' = {}
    /\ pc' = "collected"
    /\ UNCHANGED <<run, config, returned, collectorState, url_group, store,
                   filtered_id_group, url_futures, data, fetcher, pacing,
                   writes, snap, wrote, resolved, prev>>

(* ------------------------- Downloader.download ------------------------- *)
\* a slip: url_only is not looked at and every URL is fetched and written
DownloadUrlOnlyFetches ==
    /\ pc = "collected"
    /\ url_only
    /\ pc' = "done"
    /\ assets' = assets \cup Held(url_group)
    /\ returned' = [kind |-> "urls", v |-> url_group]
    /\ UNCHANGED <<run, config, collectorState, url_group, meta, task,
                   filtered_id_group, url_futures, data, fetcher, pacing,
                   writes, history>>

\* url_only: the working set is the result, nothing is fetched
DownloadUrlOnly ==
    /\ pc = "collected"
    /\ url_only
    /\ pc' = "done"
    /\ returned' = [kind |-> "urls", v |-> url_group]
    /\ UNCHANGED <<run, config, collectorState, url_group, store, task,
                   filtered_id_group, url_futures, data, fetcher, pacing,
                   writes, history>>

\* one download task per URL of the working set
BeginDownload ==
    /\ pc = "collected"
    /\ ~url_only
    /\ task' = Submit(Held(url_group))
    /\ snap' = [NoSnap EXCEPT !.assets = assets]
    /\ net' = {}
    /\ wrote' = {}
    /\ pc' = AssetsPhase
    /\ UNCHANGED <<run, config, returned, collectorState, url_group, store,
                   filtered_id_group, url_futures, data, fetcher, pacing,
                   writes, resolved, prev>>

\* a slip: the skip check never finds the path
ExistsNever(u) == FALSE

\* the skip check of a download task: the destination path exists
Exists(u) == u \in assets

\* a free worker takes a download task: the skip check, then the request
StartDownload(u) ==
    /\ pc = AssetsPhase
    /\ task[u].st = "queued"
    /\ Cardinality(Running) < num_threads
    /\ IF Exists(u)
       THEN /\ task' = [task EXCEPT ![u] = [st |-> "done", out |-> "skipped", v |-> {}]]
            /\ net' = net
       ELSE /\ task' = [task EXCEPT ![u].st = "running"]
            /\ net' = net \cup {u}
    /\ UNCHANGED <<pc, run, config, returned, collectorState, url_group,
                   store, filtered_id_group, url_futures, data, fetcher,
                   pacing, writes, snap, wrote, resolved, prev>>

\* the fetch of a download task, retries included, comes to its end: a
\* Success is written to the path, a FatalFailure is logged
FinishDownload(u, o) ==
    /\ pc = AssetsPhase
    /\ task[u].st = "running"
    /\ IF o = "ok"
       THEN /\ task' = [task EXCEPT ![u] = [st |-> "done", out |-> "saved", v |-> {}]]
            /\ assets' = assets \cup {u}
            /\ wrote' = wrote \cup {u}
            /\ writes' = WriteAsset(writes, u, Worker(u))
       ELSE /\ task' = [task EXCEPT ![u] = [st |-> "done", out |-> "failed", v |-> {}]]
            /\ UNCHANGED <<assets, wrote, writes>>
    /\ UNCHANGED <<pc, run, config, returned, collectorState, url_group, meta,
                   filtered_id_group, url_futures, data, fetcher, pacing,
                   snap, net, resolved, prev>>

\* every download task has ended; download() returns
EndDownload ==
    /\ pc = AssetsPhase
    /\ \A k \in Keys : task[k].st \notin {"queued", "running"}
    /\ pc' = "done"
    /\ returned' = [kind |-> "downloaded", v |-> NoUrls]
    /\ UNCHANGED <<run, config, collectorState, url_group, store, task,
                   filtered_id_group, url_futures, data, fetcher, pacing,
                   writes, history>>

(* ------------------------------ re-running ----------------------------- *)
\* The pipeline is run again on the same store and over the same
\* identifier set: a new Downloader and a new Collector, to which the
\* driver adds the identifiers again; nothing is kept but the files.
Rerun ==
    /\ pc = "done"
    /\ run < MaxRuns
    /\ run' = run + 1
    /\ pc' = "add"
    /\ adds' = MaxAdds
    /\ id_group' = AddAll({}, CHOOSE s \in Perms(id_group) : TRUE)
    /\ url_group' = NoUrls
    /\ task' = NoTasks
    /\ snap' = NoSnap
    /\ net' = {}
    /\ wrote' = {}
    /\ writes' = NoWrites
    /\ resolved' = Unresolved
    /\ prev' = [failed |-> {i \in Ids : resolved[i].out = "failed"},
                files |-> {x \in Kinds \X Ids : meta[x[1]][x[2]] # NoFile},
                assets |-> assets]
    /\ returned' = NoResult
    /\ UNCHANGED <<config, supplied, store, filtered_id_group, url_futures,
                   data, fetcher, pacing>>

(* ---------------------------- specification ---------------------------- *)
Next ==
    \/ \E image_ids \in IdSeqs : add(image_ids)
    \/ collect
    \/ SkipData("l36", with_tag, "l38")
    \/ BeginData("l36", with_tag, TagsFile)
    \/ ConsumeData(TagsFile)
    \/ EndData(TagsFile, "l38")
    \/ SkipData("l38", bookmark, "l44")
    \/ BeginData("l38", bookmark, BookmarkFile)
    \/ ConsumeData(BookmarkFile)
    \/ EndData(BookmarkFile, "l44")
    \/ BeginUrls
    \/ \E k \in Ids : StartTask(k)
    \/ \E k \in Ids : \E result \in UnitResults(pc, k) : FinishTask(k, result)
    \/ \E illust_id \in Ids : ConsumeUrls(illust_id)
    \/ EndUrls
    \/ DownloadUrlOnly
    \/ BeginDownload
    \/ \E u \in Urls : StartDownload(u)
    \/ \E u \in Urls : \E o \in FetchOutcomes : FinishDownload(u, o)
    \/ EndDownload
    \/ Rerun

Spec == Init /\ [][Next]_vars

\* The driver thread and the workers of a pool are threads the system
\* schedules, and every fetch ends within its timeout and retry bound: a
\* step that can be taken is taken.
SpecLive == Spec /\ WF_vars(Next)

(* ------------------------- the Fetcher alone --------------------------- *)
\* one fetch per URL, all under way at once, each with its own counter
InitFetch ==
    /\ pc = "fetch"
    /\ run = 1
    /\ adds = 0
    /\ with_tag = FALSE
    /\ bookmark = FALSE
    /\ url_only = FALSE
    /\ num_threads = MaxThreads
    /\ id_group = {}
    /\ url_group = NoUrls
    /\ meta = [k \in Kinds |-> NoFiles]
    /\ assets = {}
    /\ task = NoTasks
    /\ filtered_id_group = <<>>
    /\ url_futures = {}
    /\ data = <<>>
    /\ returned = NoResult
    /\ now = 0
    /\ queue = {}
    /\ workers = NoWorkers
    /\ fetch = [u \in Urls |-> NewFetch]
    /\ log = [u \in Urls |-> <<>>]
    /\ supplied = {}
    /\ snap = NoSnap
    /\ net = {}
    /\ wrote = {}
    /\ writes = NoWrites
    /\ resolved = Unresolved
    /\ prev = [failed |-> {}, files |-> {}, assets |-> {}]

\* the server answers the next attempt of the fetch of u with o
Attempt(u, o) ==
    /\ pc = "fetch"
    /\ fetch[u].st = "running"
    /\ fetch' = [fetch EXCEPT ![u] = FetchStep(@, o)]
    /\ log' = [log EXCEPT ![u] = Append(@, o)]
    /\ UNCHANGED <<pc, run, config, returned, collectorState, url_group,
                   store, task, filtered_id_group, url_futures, data, pacing,
                   writes, history>>

NextFetch == \E u \in Urls : \E o \in AttemptResults : Attempt(u, o)

SpecFetch == InitFetch /\ [][NextFetch]_vars

(* ------------------------ the Downloader's pacing ---------------------- *)
\* download() with NumDownloads URLs to fetch, none of them on disk
InitPace ==
    /\ pc = "pace"
    /\ run = 1
    /\ adds = 0
    /\ with_tag = FALSE
    /\ bookmark = FALSE
    /\ url_only = FALSE
    /\ num_threads \in 1 .. MaxThreads
    /\ id_group = {}
    /\ url_group = NoUrls
    /\ meta = [k \in Kinds |-> NoFiles]
    /\ assets = {}
    /\ task = NoTasks
    /\ filtered_id_group = <<>>
    /\ url_futures = {}
    /\ data = <<>>
    /\ returned = NoResult
    /\ now = 0
    /\ queue = 1 .. NumDownloads
    /\ workers = NoWorkers
    /\ fetch = <<>>
    /\ log = <<>>
    /\ supplied = {}
    /\ snap = NoSnap
    /\ net = {}
    /\ wrote = {}
    /\ writes = NoWrites
    /\ resolved = Unresolved
    /\ prev = [failed |-> {}, files |-> {}, assets |-> {}]

pipeline == <<pc, run, config, returned, collectorState, url_group, store,
              task, filtered_id_group, url_futures, data, fetcher, history>>

\* a free worker of the pool takes a download task off the queue
Take(w, n) ==
    /\ pc = "pace"
    /\ w <= num_threads
    /\ workers[w].st = "idle"
    /\ n \in queue
    /\ queue' = queue \ {n}
    /\ workers' = [workers EXCEPT ![w].st = "waiting", ![w].on = n]
    /\ UNCHANGED <<now, pipeline, writes>>

\* a slip: no delay is paid
PacedNever(w) == TRUE

\* the delay since the worker's last fetch start has been paid
Paced(w) ==
    LET starts == workers[w].starts IN
    IF starts = <<>> THEN TRUE ELSE now >= starts[Len(starts)] + DOWNLOAD_DELAY

\* the worker starts the fetch of the task it took
StartFetch(w) ==
    /\ pc = "pace"
    /\ workers[w].st = "waiting"
    /\ Paced(w)
    /\ workers' = [workers EXCEPT ![w].st = "fetching", ![w].starts = Append(@, now)]
    /\ UNCHANGED <<now, queue, pipeline, writes>>

\* the fetch is over, the worker is free again
EndFetch(w) ==
    /\ pc = "pace"
    /\ workers[w].st = "fetching"
    /\ workers' = [workers EXCEPT ![w].st = "idle", ![w].on = 0]
    /\ UNCHANGED <<now, queue, pipeline, writes>>

\* a second passes
Tick ==
    /\ pc = "pace"
    /\ now < MaxTime
    /\ now' = now + 1
    /\ UNCHANGED <<queue, workers, pipeline, writes>>

NextPace ==
    \/ \E w \in 1 .. MaxThreads : \E n \in 1 .. NumDownloads : Take(w, n)
    \/ \E w \in 1 .. MaxThreads : StartFetch(w)
    \/ \E w \in 1 .. MaxThreads : EndFetch(w)
    \/ Tick

SpecPace == InitPace /\ [][NextPace]_vars

(* ------------------- a metadata pass with raising tasks ---------------- *)
\* collect() is at the tags pass, with_tag set, over an empty store
InitRaise ==
    /\ pc = "l36"
    /\ run = 1
    /\ adds = 0
    /\ with_tag = TRUE
    /\ bookmark = FALSE
    /\ url_only = FALSE
    /\ num_threads \in 1 .. MaxThreads
    /\ id_group = Ids
    /\ url_group = NoUrls
    /\ meta = [k \in Kinds |-> NoFiles]
    /\ assets = {}
    /\ task = NoTasks
    /\ filtered_id_group = <<>>
    /\ url_futures = {}
    /\ data = <<>>
    /\ returned = NoResult
    /\ now = 0
    /\ queue = {}
    /\ workers = NoWorkers
    /\ fetch = <<>>
    /\ log = <<>>
    /\ supplied = Ids
    /\ snap = NoSnap
    /\ net = {}
    /\ wrote = {}
    /\ writes = NoWrites
    /\ resolved = Unresolved
    /\ prev = [failed |-> {}, files |-> {}, assets |-> {}]

\* the call of collect_data_fn in a pool thread raises: the exception is
\* kept in the task's future
RaiseTask(k) ==
    /\ pc \in Kinds
    /\ task[k].st = "running"
    /\ task' = [task EXCEPT ![k] = [st |-> "raised", out |-> "failed", v |-> {}]]
    /\ UNCHANGED <<pc, run, config, returned, collectorState, url_group,
                   store, filtered_id_group, url_futures, data, fetcher,
                   pacing, history, writes>>

\* the iterator of executor.map comes to a future that holds an exception:
\* it raises it in the zip loop, which has no handler, and cancels the
\* futures that have not started
ReraiseData(file_name) ==
    /\ pc = file_name
    /\ filtered_id_group # <<>>
    /\ task[Head(filtered_id_group)].st = "raised"
    /\ task' = [k \in Keys |->
                   IF k = Head(filtered_id_group)
                   THEN [task[k] EXCEPT !.st = "reraised"]
                   ELSE IF task[k].st = "queued"
                        THEN [task[k] EXCEPT !.st = "cancelled"]
                        ELSE task[k]]
    /\ UNCHANGED <<pc, run, config, returned, collectorState, url_group,
                   store, filtered_id_group, url_futures, data, fetcher,
                   pacing, history, writes>>

\* the exception leaves the with block, which waits for the running
\* tasks, and then _collect_and_save_data and collect()
Unwind(file_name) ==
    /\ pc = file_name
    /\ \E k \in Ids : task[k].st = "reraised"
    /\ \A k \in Keys : task[k].st # "running"
    /\ pc' = "aborted"
    /\ UNCHANGED <<run, config, returned, collectorState, url_group, store,
                   task, filtered_id_group, url_futures, data, fetcher,
                   pacing, history, writes>>

NextRaise ==
    \/ BeginData("l36", with_tag, TagsFile)
    \/ \E k \in Ids : StartTask(k)
    \/ \E k \in Ids : \E result \in UnitResults(pc, k) : FinishTask(k, result)
    \/ \E k \in Ids : RaiseTask(k)
    \/ ConsumeData(TagsFile)
    \/ ReraiseData(TagsFile)
    \/ Unwind(TagsFile)
    \/ EndData(TagsFile, "l38")

SpecRaise == InitRaise /\ [][NextRaise]_vars /\ WF_vars(NextRaise)

(* ------------------------------- claims -------------------------------- *)

\* C1  Idempotent add: after any sequence of add calls id_group is the
\* union of the identifiers supplied, so it has as many elements as there
\* are distinct identifiers; adding again what an earlier call supplied
\* leaves the set as it is.
C1_IdempotentAdd ==
    /\ id_group = supplied
    /\ Cardinality(id_group) = Cardinality(supplied)
    /\ \A image_ids \in IdSeqs :
         Range(image_ids) \subseteq supplied => AddAll(id_group, image_ids) = id_group

C1_Witness ==
    /\ pc = "add"
    /\ adds = MaxAdds
    /\ Cardinality(id_group) > 1

\* in a metadata pass, the ids whose data file was there when the pass
\* began have no task, no network call and no write, and the file is as it
\* was
Skipped ==
    pc \in Kinds =>
        \A i \in id_group :
            snap.files[i] # NoFile =>
                /\ task[i].st = "idle"
                /\ i \notin net
                /\ i \notin wrote
                /\ meta[pc][i] = snap.files[i]

\* C2  Skip-on-existing (metadata): an identifier whose data file exists
\* when a metadata pass begins gets no task and no network call in that
\* pass, and its file is neither written nor changed; a data file changes
\* only in the pass of its own kind, so it is after collect() what it was
\* before.
C2_SkipExistingMetadata ==
    /\ []Skipped
    /\ [][\A k \in Kinds : pc # k => meta'[k] = meta[k]]_vars

C2_Witness ==
    /\ pc \in Kinds
    /\ filtered_id_group = <<>>
    /\ wrote # {}
    /\ \E i \in id_group : snap.files[i] # NoFile

\* C3  Skip-on-existing (assets): a URL whose destination path exists when
\* download() begins, and so when its task makes the skip check, gets no
\* network call and no write; its task ends as skipped, not as a failure,
\* and the file stays.
C3_SkipExistingAsset ==
    pc \in {AssetsPhase, "done"} =>
        \A u \in Held(url_group) :
            u \in snap.assets =>
                /\ u \notin net
                /\ u \notin wrote
                /\ u \in assets
                /\ task[u].st \in {"queued", "done"}
                /\ task[u].st = "done" => task[u].out = "skipped"

C3_Witness ==
    /\ pc = AssetsPhase
    /\ \E u \in Held(url_group) : task[u].out = "skipped"
    /\ \E u \in Held(url_group) : task[u].out = "saved"

AllTransient(replies) == \A n \in DOMAIN replies : replies[n] = "transient"

Front(replies) == SubSeq(replies, 1, Len(replies) - 1)

\* C4 (as amended)  Retry bound: a fetch whose first N attempts fail
\* transiently, N < FAIL_TIMES, and whose next attempt succeeds returns
\* Success; a fetch whose attempts all fail transiently returns
\* FatalFailure after exactly FAIL_TIMES attempts, having given up neither
\* earlier nor later; the counter of a fetch counts its own attempts only.
C4_RetryBound ==
    \A u \in DOMAIN fetch :
        LET f == fetch[u]
            replies == log[u]
        IN /\ f.tries = Len(replies)
           /\ Len(replies) <= FAIL_TIMES
           /\ (AllTransient(replies) /\ Len(replies) < FAIL_TIMES) => f.st = "running"
           /\ (AllTransient(replies) /\ Len(replies) = FAIL_TIMES)
                  => (f.st = "done" /\ f.out = "exhausted")
           /\ (replies # <<>> /\ replies[Len(replies)] = "ok" /\ AllTransient(Front(replies)))
                  => (f.st = "done" /\ f.out = "ok" /\ Len(replies) - 1 < FAIL_TIMES)
           /\ f.out = "exhausted" => (AllTransient(replies) /\ Len(replies) = FAIL_TIMES)

C4_Witness ==
    \E u, w \in DOMAIN fetch :
        /\ fetch[u].out = "exhausted"
        /\ fetch[w].out = "ok"
        /\ fetch[w].tries = FAIL_TIMES

\* C4 (as claimed)  After N transient failures, for every N up to and
\* including FAIL_TIMES, the fetch goes on to attempt N+1, so that a
\* success of that attempt makes it return Success.
C4_AsClaimed ==
    \A u \in DOMAIN fetch :
        (AllTransient(log[u]) /\ Len(log[u]) <= FAIL_TIMES) => fetch[u].st = "running"

\* the resolution of i has ended and, if it gave URLs, they are in the
\* Downloader's working set
Forwarded(i) ==
    /\ resolved[i].out # "none"
    /\ resolved[i].out = "data" => resolved[i].v \subseteq Held(url_group)

Scenario ==
    /\ id_group = {100, 101}
    /\ resolved[100].out = "data"
    /\ Cardinality(resolved[100].v) = 2
    /\ resolved[101].out = "empty"

\* C6  Empty result is not a failure: with identifiers 100 and 101, 100
\* resolving to two URLs and 101 to None, collect() leaves exactly those
\* two URLs in the working set, and download() on an empty store without
\* fetch failures ends with exactly those two asset files written.
C6_EmptyIsNoFailure ==
    /\ (pc \in {"collected", AssetsPhase, "done"} /\ Scenario) =>
           /\ Held(url_group) = resolved[100].v
           /\ Size(url_group) = 2
    /\ (pc = "done" /\ Scenario /\ ~url_only /\ run = 1
           /\ \A u \in Held(url_group) : task[u].out # "failed") =>
           /\ assets = resolved[100].v
           /\ wrote = resolved[100].v
           /\ Cardinality(assets) = 2

C6_Witness ==
    /\ pc = "done"
    /\ Scenario
    /\ ~url_only
    /\ run = 1
    /\ \A u \in Held(url_group) : task[u].out = "saved"

\* C7  URL uniqueness: the working set never holds a URL more than once,
\* its size is the number of distinct URLs, and download() has exactly one
\* task for each of them.
C7_UrlUniqueness ==
    /\ \A u \in Urls : url_group[u] <= 1
    /\ Size(url_group) = Cardinality(Held(url_group))
    /\ pc = AssetsPhase => Submitted = Held(url_group)

C7_Witness ==
    /\ pc = "collected"
    /\ \E i, j \in id_group :
         /\ i # j
         /\ resolved[i].out = "data"
         /\ resolved[j].out = "data"
         /\ resolved[i].v \cap resolved[j].v # {}

\* every task the open pool was given has ended and its result has been
\* consumed
Drained ==
    /\ filtered_id_group = <<>>
    /\ url_futures = {}
    /\ \A k \in Keys : task[k].st \in {"idle", "consumed"}
    /\ pc = PagesPhase => Submitted = id_group
    /\ pc \in Kinds => Submitted = {i \in id_group : snap.files[i] = NoFile}

\* C8  Drain before return: a pass is left only when every task it
\* submitted has ended and its result has been consumed, for the URL pass
\* and for each metadata pass; at the return of collect() every
\* identifier has its resolution; and collect(), once called, returns.
C8_DrainBeforeReturn ==
    /\ [][(pc \in Kinds \cup {PagesPhase} /\ pc' # pc) => Drained]_vars
    /\ [](pc = "collected" => \A i \in id_group : resolved[i].out # "none")
    /\ (pc = "l36") ~> (pc = "collected")

C8_Witness ==
    /\ pc = "collected"
    /\ with_tag
    /\ bookmark
    /\ id_group = Ids

\* C9 (as amended)  Resumable re-run: a second run over the same
\* identifier set issues a metadata fetch only for an identifier whose
\* data file the first run did not persist, and an asset fetch only for a
\* URL whose file the first run did not persist; what the first run
\* persisted is skipped and stays as it was.  (The URL resolution of every
\* identifier is fetched again: it has no cache check.)
C9_ResumableRerun ==
    run > 1 =>
        /\ pc \in Kinds => \A i \in net : <<pc, i>> \notin prev.files
        /\ pc \in {AssetsPhase, "done"} => net \cap prev.assets = {}
        /\ \A x \in prev.files :
             \E r \in 1 .. run - 1 : meta[x[1]][x[2]] = Dumps(x[2], <<x[1], x[2], r>>)
        /\ prev.assets \subseteq assets

C9_Witness ==
    /\ run > 1
    /\ pc = "done"
    /\ prev.assets # {}
    /\ net # {}
    /\ prev.files # {}

\* C9 (as claimed)  A second run over the same identifier set issues
\* network fetches only for what failed in the first run: a URL
\* resolution only for an identifier whose resolution failed, a metadata
\* or asset fetch only for what the first run did not persist.
C9_AsClaimed ==
    run > 1 =>
        /\ pc = PagesPhase => net \subseteq prev.failed
        /\ pc \in Kinds => \A i \in net : <<pc, i>> \notin prev.files
        /\ pc \in {AssetsPhase, "done"} => net \cap prev.assets = {}

\* C10 (as claimed)  Empty versus malformed: once the metadata pass has
\* consumed the result of an identifier, one that resolved to nothing is
\* told apart from one whose resolution failed: the filter of a later run
\* leaves the first out and keeps the second.
C10_AsClaimed ==
    pc \in Kinds =>
        \A i \in id_group :
            task[i].st = "consumed" =>
                /\ task[i].out = "empty" => i \notin Filtered(pc)
                /\ task[i].out = "failed" => i \in Filtered(pc)

StartsIn(t) ==
    {x \in (1 .. MaxThreads) \X (1 .. NumDownloads) :
        /\ x[2] <= Len(workers[x[1]].starts)
        /\ workers[x[1]].starts[x[2]] \in t .. (t + DOWNLOAD_DELAY - 1)}

\* C12  Per-worker pacing: two successive fetch starts of one worker are
\* at least DOWNLOAD_DELAY apart, so with one worker the third of three
\* downloads starts at least 2 * DOWNLOAD_DELAY after the first; the bound
\* is per worker: in any DOWNLOAD_DELAY seconds the pool starts at most
\* num_threads fetches.
C12_PerWorkerPacing ==
    /\ \A w \in 1 .. MaxThreads :
         LET starts == workers[w].starts IN
         \A n \in 2 .. Len(starts) : starts[n] - starts[n - 1] >= DOWNLOAD_DELAY
    /\ (num_threads = 1 /\ Len(workers[1].starts) >= 3) =>
           workers[1].starts[3] - workers[1].starts[1] >= 2 * DOWNLOAD_DELAY
    /\ \A t \in 0 .. MaxTime : Cardinality(StartsIn(t)) <= num_threads

C12_Witness ==
    /\ pc = "pace"
    /\ num_threads = 1
    /\ Len(workers[1].starts) = 3
    /\ workers[1].starts[3] = workers[1].starts[1] + 2 * DOWNLOAD_DELAY

\* C13  Ordering: a URL enters the Downloader's working set only in a
\* step that consumes the completed resolution of an identifier that owns
\* it; a metadata file is written only in a step that consumes the
\* completed, non-null result of the fetch of its own identifier; and no
\* file is written for an identifier whose fetch failed or returned null.
C13_Ordering ==
    /\ [][\A u \in Urls :
            url_group'[u] > url_group[u] =>
                \E i \in id_group :
                    /\ task[i].st = "done"
                    /\ task'[i].st = "consumed"
                    /\ resolved[i].out = "data"
                    /\ u \in resolved[i].v]_vars
    /\ [][\A k \in Kinds : \A i \in Ids :
            meta'[k][i] # meta[k][i] =>
                /\ pc = k
                /\ task[i].st = "done"
                /\ task[i].out = "data"
                /\ task'[i].st = "consumed"
                /\ meta'[k][i] = Dumps(i, task[i].v)]_vars
    /\ [](pc \in Kinds =>
            \A i \in id_group :
                (task[i].st = "consumed" /\ task[i].out # "data") =>
                    (meta[pc][i] = NoFile /\ i \notin wrote))

C13_Witness ==
    /\ pc = PagesPhase
    /\ \E i, j \in id_group :
         /\ meta[TagsFile][i] # NoFile
         /\ meta[TagsFile][j] = NoFile
         /\ task[i].st = "consumed"
         /\ task[i].out = "data"
         /\ task[i].v \subseteq Held(url_group)
         /\ task[j].st = "running"

\* a download is in flight while the resolution of an identifier of the
\* working set has not completed
Overlap ==
    /\ \E u \in Urls : task[u].st \in {"queued", "running"}
    /\ \E i \in id_group : resolved[i].out = "none"

C15_BoundedInFlight ==
    LET inflight == {i \in Ids : task[i].st = "running"} IN
    /\ Cardinality(inflight) <= num_threads
    /\ Cardinality(inflight) <= num_threads + 1
    /\ inflight # {} => pc \in Kinds \cup {PagesPhase}
    /\ inflight \subseteq id_group

C15_Witness ==
    /\ pc \in Kinds \cup {PagesPhase}
    /\ Cardinality(id_group) > num_threads
    /\ Cardinality({i \in Ids : task[i].st = "running"}) = num_threads
    /\ \E i \in Ids : task[i].st = "queued"

\* C16  Persist at most once: in one run every metadata file is written
\* at most once; during its pass it has been written exactly once if the
\* fetch of its identifier has been consumed with a non-null result and
\* not at all otherwise; a file written in this run is the one on disk;
\* and a pass whose flag is not set writes nothing, whatever the other
\* flag is.
C16_PersistAtMostOnce ==
    \A k \in Kinds : \A i \in Ids :
        LET n == Len(writes.files[k][i]) IN
        /\ n <= 1
        /\ pc = k => n = IF task[i].st = "consumed" /\ task[i].out = "data" THEN 1 ELSE 0
        /\ n = 1 <=> meta[k][i] = Dumps(i, Served(k, i))
        /\ (k = TagsFile /\ ~with_tag) => n = 0
        /\ (k = BookmarkFile /\ ~bookmark) => n = 0

C16_Witness ==
    /\ pc = "l44"
    /\ with_tag
    /\ bookmark
    /\ \E i, j \in id_group :
         /\ Len(writes.files[TagsFile][i]) = 1
         /\ Len(writes.files[BookmarkFile][i]) = 1
         /\ Len(writes.files[TagsFile][j]) = 0
         /\ meta[TagsFile][j] = NoFile

C18_SingleWriter ==
    /\ \A k \in Kinds : \A i \in Ids :
         /\ Cardinality(Range(writes.files[k][i])) <= 1
         /\ Range(writes.files[k][i]) \subseteq {Main}
    /\ Range(writes.url_group) \subseteq {Main}
    /\ \A u \in Urls :
         /\ Cardinality(Range(writes.assets[u])) <= 1
         /\ Len(writes.assets[u]) <= 1
         /\ Range(writes.assets[u]) \subseteq {Worker(u)}

C18_Witness ==
    /\ pc = "done"
    /\ with_tag
    /\ \A i \in Ids : writes.files[TagsFile][i] = <<Main>>
    /\ Len(writes.url_group) > 1
    /\ \A u \in Urls : writes.assets[u] = <<Worker(u)>>

\* the places of collect() before the URL pass
BeforeUrls == {"l36", TagsFile, "l38", BookmarkFile, "l44"}

\* C19  Sequential phases inside collect(): the tags pass, the
\* bookmark-data pass and the URL pass follow one another in this order;
\* between two passes no task of the Collector is submitted, running or
\* unconsumed, so tasks of two passes are never in flight together; once
\* a metadata pass is left, its files are not written again in the run;
\* and no Downloader.add is made before both metadata passes are over.
C19_SequentialPhases ==
    /\ [](\A i \in Ids : task[i].st # "idle" => pc \in Kinds \cup {PagesPhase})
    /\ [](pc \in BeforeUrls => (url_group = NoUrls /\ writes.url_group = <<>>))
    /\ [](pc \in {"l36", TagsFile} =>
            \A i \in Ids : writes.files[BookmarkFile][i] = <<>>)
    /\ [][/\ pc' = TagsFile => pc \in {"l36", TagsFile}
          /\ pc' = "l38" => pc \in {"l36", TagsFile, "l38"}
          /\ pc' = BookmarkFile => pc \in {"l38", BookmarkFile}
          /\ pc' = "l44" => pc \in {"l38", BookmarkFile, "l44"}
          /\ pc' = PagesPhase => pc \in {"l44", PagesPhase}]_vars
    /\ [][\A k \in Kinds :
            (pc # k /\ run' = run) => writes'.files[k] = writes.files[k]]_vars
    /\ [][(pc \in Kinds /\ pc' # pc) =>
            \A i \in Ids : task[i].st \in {"idle", "consumed"} /\ task'[i].st = "idle"]_vars

C19_Witness ==
    /\ pc = PagesPhase
    /\ with_tag
    /\ bookmark
    /\ \E i \in Ids : task[i].st = "running"
    /\ \E i \in Ids : writes.files[TagsFile][i] # <<>>
    /\ \E i \in Ids : writes.files[BookmarkFile][i] # <<>>
    /\ writes.url_group # <<>>

\* C20  Result pairing in the metadata pass: whatever the order in which
\* the tasks complete, what is stored under key id in the dict and
\* written to the file of id is what the fetch of the artwork of that
\* same id gave; the keys of the dict are the identifiers consumed so far
\* with a non-null result, all of them filtered identifiers, and at the
\* end of the loop exactly the filtered identifiers whose fetch gave
\* non-null.
C20_ResultPairing ==
    pc \in Kinds =>
        /\ \A i \in DOMAIN data :
             /\ data[i] = Served(pc, i)
             /\ data[i] = task[i].v
             /\ meta[pc][i] = Dumps(i, Served(pc, i))
        /\ DOMAIN data = {i \in Ids : task[i].st = "consumed" /\ task[i].out = "data"}
        /\ DOMAIN data \subseteq {i \in id_group : snap.files[i] = NoFile}
        /\ filtered_id_group = <<>> =>
               DOMAIN data = {i \in id_group : snap.files[i] = NoFile /\ task[i].out = "data"}

C20_Witness ==
    /\ pc \in Kinds
    /\ num_threads > 1
    /\ filtered_id_group = <<>>
    /\ Cardinality(DOMAIN data) > 1

====
